---- MODULE Spec2Model ----
(***************************************************************************)
(* Vehicle validation rule engine (server/routes.ts): the stored rules,    *)
(* condition groups and conditions, the POST /api/rules/validate handler   *)
(* with its await points, and the audit log it appends to.                 *)
(*                                                                         *)
(* Strings that the code inspects character by character (condition        *)
(* values, candidate values) are sequences of one-character strings, so    *)
(* that split, trim, Number() and toString() are computed, not assumed.    *)
(* Enumerated strings the code only compares whole (status, country, ...)  *)
(* are TLA+ strings.                                                       *)
(***************************************************************************)
EXTENDS Integers, Sequences, FiniteSets, TLC

(***************************************************************************)
(* Bounds of the model.                                                    *)
(***************************************************************************)
\* validation calls received in one behaviour
MaxCalls == 1
\* rule-editing requests (PATCH / condition-group / condition routes) in one behaviour
MaxEdits == 1
\* last instant of the clock
MaxNow == 1
\* the rule editor is used on the rules up to this identifier
MaxEditedRule == 1

\* SQL NULL in a nullable integer column (or_group, make_year, valid_until, rule_id)
NULL == -1
\* JS null / absent in a string-valued response field
NullStr == "null"

(***************************************************************************)
(* JavaScript values and conversions                                       *)
(***************************************************************************)
Digits == <<"0", "1", "2", "3", "4", "5", "6", "7", "8", "9">>

IsDigit(c) == \E d \in 1..10 : Digits[d] = c

DigitVal(c) == (CHOOSE d \in 1..10 : Digits[d] = c) - 1

\* a field of the request body: absent, JSON null, a JSON string or a JSON number
Undef == [t |-> "undef", s |-> <<>>, n |-> 0]
JsNull == [t |-> "null", s |-> <<>>, n |-> 0]
Str(s) == [t |-> "str", s |-> s, n |-> 0]
Num(n) == [t |-> "num", s |-> <<>>, n |-> n]

\* a JS number: NaN or an integer
NaN == [nan |-> TRUE, v |-> 0]
Fin(v) == [nan |-> FALSE, v |-> v]

RECURSIVE NatToChars(_)
NatToChars(n) ==
  IF n < 10 THEN <<Digits[n + 1]>>
  ELSE Append(NatToChars(n \div 10), Digits[(n % 10) + 1])

\* Number.prototype.toString / String.prototype.toString
toString(x) ==
  IF x.t = "str" THEN x.s
  ELSE IF x.n < 0 THEN <<"-">> \o NatToChars(0 - x.n)
  ELSE NatToChars(x.n)

RECURSIVE TrimLeft(_)
TrimLeft(s) ==
  IF s # <<>> /\ Head(s) = " " THEN TrimLeft(Tail(s)) ELSE s

RECURSIVE TrimRight(_)
TrimRight(s) ==
  IF s # <<>> /\ s[Len(s)] = " " THEN TrimRight(SubSeq(s, 1, Len(s) - 1)) ELSE s

\* String.prototype.trim
Trim(s) == TrimRight(TrimLeft(s))

RECURSIVE DigitsToNat(_)
DigitsToNat(s) ==
  IF s = <<>> THEN 0
  ELSE DigitsToNat(SubSeq(s, 1, Len(s) - 1)) * 10 + DigitVal(s[Len(s)])

AllDigits(s) == s # <<>> /\ \A k \in 1..Len(s) : IsDigit(s[k])

\* Number(string): surrounding white space is ignored, the empty string is 0,
\* an optionally signed run of digits is its value, anything else is NaN
StringToNumber(s) ==
  LET u == Trim(s) IN
  IF u = <<>> THEN Fin(0)
  ELSE IF AllDigits(u) THEN Fin(DigitsToNat(u))
  ELSE IF Head(u) = "-" /\ AllDigits(Tail(u)) THEN Fin(0 - DigitsToNat(Tail(u)))
  ELSE NaN

\* Number(value) of a present request field
ToNumber(x) == IF x.t = "num" THEN Fin(x.n) ELSE StringToNumber(x.s)

\* the relational operators of JS on numbers: every comparison with NaN is false
NumGt(a, b) == ~a.nan /\ ~b.nan /\ a.v > b.v
NumLt(a, b) == ~a.nan /\ ~b.nan /\ a.v < b.v
NumGe(a, b) == ~a.nan /\ ~b.nan /\ a.v >= b.v
NumLe(a, b) == ~a.nan /\ ~b.nan /\ a.v <= b.v

RECURSIVE SplitFrom(_, _)
\* the segments of s after a segment start, cur being the segment read so far
SplitFrom(s, cur) ==
  IF s = <<>> THEN <<cur>>
  ELSE IF Head(s) = "," THEN <<cur>> \o SplitFrom(Tail(s), <<>>)
  ELSE SplitFrom(Tail(s), Append(cur, Head(s)))

\* String.prototype.split(',')
Split(s) == SplitFrom(s, <<>>)

\* .map(v => v.trim())
TrimAll(list) == [k \in 1..Len(list) |-> Trim(list[k])]

\* .map(Number)
NumberAll(list) == [k \in 1..Len(list) |-> StringToNumber(list[k])]

Includes(list, x) == \E k \in 1..Len(list) : list[k] = x

\* JS truthiness of a request field
Truthy(x) ==
  \/ x.t = "str" /\ x.s # <<>>
  \/ x.t = "num" /\ x.n # 0

(***************************************************************************)
(* Operator evaluation and condition-group matching                        *)
(***************************************************************************)
\* validation[condition.parameter] with an absent or null field read as ""
FieldOfAbsentAsEmpty(validation, parameter) ==
  IF parameter \in DOMAIN validation.vehicle
       /\ validation.vehicle[parameter].t \notin {"undef", "null"}
  THEN validation.vehicle[parameter]
  ELSE Str(<<>>)

\* validation[condition.parameter]: the request field a condition names
FieldOf(validation, parameter) ==
  IF parameter \in DOMAIN validation.vehicle THEN validation.vehicle[parameter]
  ELSE Undef

\* case 'BETWEEN' with both bounds excluded
BetweenExclusive(stored, value) ==
  LET bounds == NumberAll(Split(stored))
      min == bounds[1]
      max == IF Len(bounds) >= 2 THEN bounds[2] ELSE NaN
      numValue == ToNumber(value)
  IN  NumGt(numValue, min) /\ NumLt(numValue, max)

\* case 'BETWEEN': const [min, max] = value.split(',').map(Number); a missing
\* second segment leaves max undefined, and a comparison with undefined is false
Between(stored, value) ==
  LET bounds == NumberAll(Split(stored))
      min == bounds[1]
      max == IF Len(bounds) >= 2 THEN bounds[2] ELSE NaN
      numValue == ToNumber(value)
  IN  NumGe(numValue, min) /\ NumLe(numValue, max)

\* the callback of conditions.some(...): one condition against the request
EvalCondition(condition, validation) ==
  LET value == FieldOf(validation, condition.parameter) IN
  IF value.t \in {"undef", "null"} THEN FALSE
  ELSE CASE condition.operator = "=" -> toString(value) = condition.value
         [] condition.operator = "!=" -> toString(value) # condition.value
         [] condition.operator = ">" ->
              NumGt(ToNumber(value), StringToNumber(condition.value))
         [] condition.operator = "<" ->
              NumLt(ToNumber(value), StringToNumber(condition.value))
         [] condition.operator = ">=" ->
              NumGe(ToNumber(value), StringToNumber(condition.value))
         [] condition.operator = "<=" ->
              NumLe(ToNumber(value), StringToNumber(condition.value))
         [] condition.operator = "IN" ->
              Includes(TrimAll(Split(condition.value)), toString(value))
         [] condition.operator = "NOT IN" ->
              ~Includes(TrimAll(Split(condition.value)), toString(value))
         [] condition.operator = "BETWEEN" -> Between(condition.value, value)
         [] OTHER -> FALSE

CondsOf(groupConditions) == {groupConditions[k] : k \in 1..Len(groupConditions)}

\* the values of the orGroups Map: the entry of key null, always present, holds
\* the null-tagged conditions; every tag met adds the entry of its conditions
OrGroups(groupConditions) ==
  LET cs == CondsOf(groupConditions) IN
  {{c \in cs : c.orGroup = NULL}}
    \cup {{c \in cs : c.orGroup = t} : t \in {c.orGroup : c \in cs} \ {NULL}}

\* groupMatches: every entry of orGroups has some condition that holds
GroupMatches(groupConditions, validation) ==
  \A unit \in OrGroups(groupConditions) :
    \E condition \in unit : EvalCondition(condition, validation)

\* the earlier handler's key: `${condition.orGroup ?? condition.conditionId}`
UnitKey(c) == IF c.orGroup = NULL THEN c.conditionId ELSE c.orGroup

\* the earlier handler's orGroups record: the conditions under each key
OrGroupsByKey(groupConditions) ==
  LET cs == CondsOf(groupConditions) IN
  {{c \in cs : UnitKey(c) = k} : k \in {UnitKey(c) : c \in cs}}

\* the earlier handler's switch: no trim of the IN / NOT IN segments, no BETWEEN
EvalConditionEarlier(condition, validation) ==
  LET value == FieldOf(validation, condition.parameter) IN
  IF value.t \in {"undef", "null"} THEN FALSE
  ELSE CASE condition.operator = "=" -> toString(value) = condition.value
         [] condition.operator = "!=" -> toString(value) # condition.value
         [] condition.operator = ">" ->
              NumGt(ToNumber(value), StringToNumber(condition.value))
         [] condition.operator = "<" ->
              NumLt(ToNumber(value), StringToNumber(condition.value))
         [] condition.operator = ">=" ->
              NumGe(ToNumber(value), StringToNumber(condition.value))
         [] condition.operator = "<=" ->
              NumLe(ToNumber(value), StringToNumber(condition.value))
         [] condition.operator = "IN" ->
              Includes(Split(condition.value), toString(value))
         [] condition.operator = "NOT IN" ->
              ~Includes(Split(condition.value), toString(value))
         [] OTHER -> FALSE

\* the earlier handler's groupMatches
GroupMatchesEarlier(groupConditions, validation) ==
  \A unit \in OrGroupsByKey(groupConditions) :
    \E condition \in unit : EvalConditionEarlier(condition, validation)

(***************************************************************************)
(* Rule-level filters of the validate handler                              *)
(***************************************************************************)
Wildcard == "Any"

\* basicMatch without the comparison of the opportunity source
BasicMatchNoSource(rule, validation) ==
  /\ (rule.country = Wildcard \/ rule.country = validation.country)
  /\ (rule.customer = Wildcard \/ rule.customer = validation.customer)

\* basicMatch
BasicMatch(rule, validation) ==
  /\ (rule.country = Wildcard \/ rule.country = validation.country)
  /\ (rule.customer = Wildcard \/ rule.customer = validation.customer)
  /\ (rule.opportunitySource = Wildcard
        \/ rule.opportunitySource = validation.opportunitySource)

\* yearMatch: the comparison runs only when the request carries a truthy
\* yearComparison and makeYear and the rule a truthy makeYear; === is strict
\* (a string never equals a number), > and < convert a string operand
YearMatch(rule, validation) ==
  LET year == FieldOf(validation, "makeYear")
      ruleYear == Fin(rule.makeYear)
  IN  IF /\ validation.yearComparison # ""
         /\ Truthy(year)
         /\ rule.makeYear # NULL /\ rule.makeYear # 0
      THEN CASE validation.yearComparison = "=" ->
                  year.t = "num" /\ year.n = rule.makeYear
             [] validation.yearComparison = ">" -> NumGt(ToNumber(year), ruleYear)
             [] validation.yearComparison = "<" -> NumLt(ToNumber(year), ruleYear)
             [] OTHER -> TRUE
      ELSE TRUE

(***************************************************************************)
(* Stored rows and requests the model draws from                           *)
(***************************************************************************)
Rule(id, type, status, until, action, message, customer, country, source, year) ==
  [ruleId |-> id, ruleType |-> type, status |-> status, validUntil |-> until,
   action |-> action, actionMessage |-> message, customer |-> customer,
   country |-> country, opportunitySource |-> source, makeYear |-> year]

Group(id, ruleId) == [conditionGroupId |-> id, ruleId |-> ruleId]

Condition(id, groupId, parameter, operator, value, orGroup) ==
  [conditionId |-> id, conditionGroupId |-> groupId, parameter |-> parameter,
   operator |-> operator, value |-> value, orGroup |-> orGroup]

\* the three rules the test suite inserts (testRules), in insertion order
TestStore ==
  [rules |-> <<
     Rule(1, "Global", "Active", NULL, "POZVI - NESLIBUJ", NullStr, Wildcard, Wildcard, Wildcard, NULL),
     Rule(2, "Global", "Active", NULL, "NEZVI - NECHCEME", NullStr, Wildcard, Wildcard, Wildcard, NULL),
     Rule(3, "Global", "Active", NULL, "POZVI SWAPEM - NESLIBUJ", NullStr, Wildcard, Wildcard, Wildcard,
          NULL)>>,
   conditionGroups |-> <<Group(1, 1), Group(2, 2), Group(3, 2), Group(4, 3)>>,
   conditions |-> <<
     Condition(1, 1, "make", "=", <<"1", "0">>, NULL),
     Condition(2, 2, "make", "=", <<"1", "0">>, 1),
     Condition(3, 2, "make", "=", <<"6">>, 1),
     Condition(4, 3, "price", "BETWEEN",
               <<"1", "0", "0", "0", "0", "0", ",", "5", "0", "0", "0", "0", "0">>, NULL),
     Condition(5, 4, "make", "=", <<"1", "0">>, 1),
     Condition(6, 4, "model", "IN", <<"1", ",", "2", ",", "3">>, 1),
     Condition(7, 4, "makeYear", ">", <<"2", "0", "2", "0">>, NULL)>>]

\* a store as the rule editor leaves it: a rule limited in time, to one country
\* and by make year, with two untagged conditions and an empty group; a rule
\* without condition groups; an inactive rule; a rule of the other type
EditorStore ==
  [rules |-> <<
     Rule(1, "Global", "Active", 1, "POZVI - NESLIBUJ", "call", "Private", "CZ", Wildcard, 2020),
     Rule(2, "Global", "Active", NULL, "NEZVI - NECHCEME", "skip", Wildcard, Wildcard, Wildcard, NULL),
     Rule(3, "Global", "Inactive", NULL, "NoInterest", NullStr, Wildcard, Wildcard, Wildcard, NULL),
     Rule(4, "Local", "Active", NULL, "NoInterest", "local", Wildcard, Wildcard, "SMS", NULL)>>,
   conditionGroups |-> <<Group(1, 1), Group(2, 1)>>,
   conditions |-> <<
     Condition(1, 1, "make", "=", <<"1", "0">>, NULL),
     Condition(2, 1, "price", "<", <<"5", "0", "0">>, NULL)>>]

Stores == {TestStore, EditorStore}

Vehicle(make, model, makeYear, price) ==
  [make |-> make, model |-> model, makeYear |-> makeYear, price |-> price]

Request(type, country, customer, source, cmp, vehicle) ==
  [ruleType |-> type, country |-> country, customer |-> customer,
   opportunitySource |-> source, yearComparison |-> cmp, vehicle |-> vehicle]

\* the request of the test suite: Global, Private, CZ, Webform
TestRequest(vehicle) == Request("Global", "CZ", "Private", "Webform", "", vehicle)

\* request bodies: two of the test suite (single make; second make with a price),
\* then numbers for make and makeYear, a year comparison, and other contexts
Requests ==
  {TestRequest(Vehicle(Str(<<"1", "0">>), Undef, Undef, Undef)),
   TestRequest(Vehicle(Str(<<"6">>), Undef, Undef,
                       Str(<<"2", "0", "0", "0", "0", "0">>))),
   TestRequest(Vehicle(Str(<<"7">>), Undef, Undef, Undef)),
   TestRequest(Vehicle(Num(10), Undef, Num(2022), Undef)),
   TestRequest(Vehicle(Num(10), Undef, Num(2019), Undef)),
   Request("Global", "CZ", "Private", "Webform", ">",
           Vehicle(Num(10), Undef, Num(2019), Num(100))),
   Request("Global", "SK", "Company", "SMS", "", Vehicle(Num(7), Undef, Undef, Num(100))),
   Request("Local", "CZ", "Private", "Ticking", "",
           Vehicle(Undef, Undef, Undef, Undef))}

(***************************************************************************)
(* State                                                                   *)
(***************************************************************************)
VARIABLES
  rules,            \* table rules, in the order the store returns its rows
  conditionGroups,  \* table condition_groups
  conditions,       \* table conditions
  auditLog,         \* table audit_log; field call is the validation call that wrote
                    \* the entry (history, not a column)
  nextRuleId,       \* serial rule_id
  nextGroupId,      \* serial condition_group_id
  nextConditionId,  \* serial condition_id
  now,              \* the clock valid_until is compared with
  variant,          \* 1: the validate handler of routes.ts:294, 2: the earlier one (:692)
  pc,               \* where the validate handler stands (its await points)
  validation,       \* req.body of the call being handled
  applicableRules,  \* the rows the first select returned
  i,                \* index of `rule` in applicableRules
  ruleGroups,       \* the condition groups read for `rule`
  g,                \* index of `group` in ruleGroups
  response,         \* the response sent for the call
  call,             \* number of validation calls received (history)
  loaded,           \* the condition lists read for `rule` so far (history)
  decided,          \* the last rule the loop body ended for, and how (history)
  computed,         \* the verdict the call had computed when it first issued an
                    \* audit insert (history)
  edits,            \* number of rule-editing requests served (history)
  snapshots,        \* the contents of condition_groups and conditions that existed
                    \* while the call in hand was being handled (history)
  last,             \* request and response of the call handled before (history)
  editorPc,         \* where the rule editor's submit stands (its awaited requests)
  conditionGroups_, \* the editor's conditionGroups state: the groups on the form
  groupIndex,       \* groupIndex of the saveConditionGroup call in hand
  conditionIndex,   \* index of `condition` in the group's conditions being created
  newGroup,         \* conditionGroupId of the group createConditionGroup returned
  bootPc,           \* where the server's startup stands
  retries,          \* retries of the startup loop
  registrations,    \* number of times routes and the error handler were registered
  listenAttempts,   \* number of server.listen calls made (history)
  exitCode          \* status the process exited with, NULL while it runs

store == <<rules, conditionGroups, conditions, nextRuleId, nextGroupId, nextConditionId>>
handler == <<pc, validation, applicableRules, i, ruleGroups, g, response, call, loaded,
             decided, computed>>
vars == <<rules, conditionGroups, conditions, auditLog, nextRuleId, nextGroupId,
          nextConditionId, now, variant, pc, validation, applicableRules, i, ruleGroups,
          g, response, call, loaded, decided, computed, edits, snapshots, last,
          editorPc, conditionGroups_, groupIndex, conditionIndex, newGroup, bootPc,
          retries, registrations, listenAttempts, exitCode>>
editor == <<editorPc, conditionGroups_, groupIndex, conditionIndex, newGroup>>
startup == <<bootPc, retries, registrations, listenAttempts, exitCode>>

NoRequest == Request("", "", "", "", "", Vehicle(Undef, Undef, Undef, Undef))

NoResponse ==
  [status |-> 0, isMatch |-> FALSE, action |-> NullStr, actionMessage |-> NullStr,
   error |-> NullStr]

\* res.json({isMatch: true, action: rule.action, actionMessage: rule.actionMessage})
MatchResponse(rule) ==
  [status |-> 200, isMatch |-> TRUE, action |-> rule.action,
   actionMessage |-> rule.actionMessage, error |-> NullStr]

\* res.json({isMatch: false, action: null, actionMessage: "No matching rules found"})
NoMatchResponse ==
  [status |-> 200, isMatch |-> FALSE, action |-> NullStr,
   actionMessage |-> "No matching rules found", error |-> NullStr]

\* the outer catch answering "no match" in place of the error
ErrorAnsweredAsNoMatch == NoMatchResponse

\* res.status(500).json({error: "Failed to validate vehicle"})
ErrorResponse ==
  [status |-> 500, isMatch |-> FALSE, action |-> NullStr, actionMessage |-> NullStr,
   error |-> "Failed to validate vehicle"]

\* how the loop body ended for a rule: "basic" / "year" (filtered out), "error"
\* (a read of its groups or conditions rejected), "groups" (its group loop ended)
Decision(ruleId, how, matched, groups, seen) ==
  [ruleId |-> ruleId, how |-> how, matched |-> matched, groups |-> groups,
   loaded |-> seen]

NoDecision == Decision(NULL, "", FALSE, 0, <<>>)

\* no call has been handled before
NoLast == [request |-> NoRequest, response |-> NoResponse]

\* the largest id a serial column has handed out
MaxId(ids) == IF ids = {} THEN 0 ELSE CHOOSE m \in ids : \A x \in ids : x <= m

RuleIdOf(rows) == {rows[k].ruleId : k \in 1..Len(rows)}
GroupIdOf(rows) == {rows[k].conditionGroupId : k \in 1..Len(rows)}
ConditionIdOf(rows) == {rows[k].conditionId : k \in 1..Len(rows)}

InitStore(s) ==
  /\ rules = s.rules
  /\ conditionGroups = s.conditionGroups
  /\ conditions = s.conditions
  /\ nextRuleId = MaxId(RuleIdOf(s.rules)) + 1
  /\ nextGroupId = MaxId(GroupIdOf(s.conditionGroups)) + 1
  /\ nextConditionId = MaxId(ConditionIdOf(s.conditions)) + 1

InitHandler ==
  /\ pc = "idle"
  /\ validation = NoRequest
  /\ applicableRules = <<>>
  /\ i = 0
  /\ ruleGroups = <<>>
  /\ g = 0
  /\ response = NoResponse
  /\ call = 0
  /\ loaded = <<>>
  /\ decided = NoDecision
  /\ computed = NoResponse

\* let retries = 5
Retries == 5

\* the rule editor is not submitting anything
NoEditor ==
  /\ editorPc = "closed"
  /\ conditionGroups_ = <<>>
  /\ groupIndex = 0
  /\ conditionIndex = 0
  /\ newGroup = NULL

\* the server after a startup whose first listen succeeded
Serving ==
  /\ bootPc = "listening"
  /\ retries = Retries
  /\ registrations = 1
  /\ listenAttempts = 1
  /\ exitCode = NULL

Init ==
  /\ \E s \in Stores : InitStore(s)
  /\ auditLog = <<>>
  /\ now = 0
  /\ variant = 1
  /\ edits = 0
  /\ snapshots = {}
  /\ last = NoLast
  /\ InitHandler
  /\ NoEditor
  /\ Serving

(***************************************************************************)
(* POST /api/rules/validate: one action per await point                    *)
(***************************************************************************)
rule == applicableRules[i]

\* groupMatches of the handler in use
Matches(groupConditions, request) ==
  IF variant = 1 THEN GroupMatches(groupConditions, request)
  ELSE GroupMatchesEarlier(groupConditions, request)

\* GroupSatisfied without the skip of an empty condition list
GroupSatisfiedNoSkip(groupConditions, request) == Matches(groupConditions, request)

\* one pass of the group loop on the conditions read: an empty list is skipped
\* (`continue`), any other must pass groupMatches
GroupSatisfied(groupConditions, request) ==
  groupConditions = <<>> \/ Matches(groupConditions, request)

\* db.select().from(rules).where(ruleType = ..., status = 'Active')
SelectApplicable(request) ==
  SelectSeq(rules, LAMBDA r : r.ruleType = request.ruleType /\ r.status = "Active")

\* db.select().from(conditionGroups).where(ruleId = ...)
SelectGroups(ruleId) == SelectSeq(conditionGroups, LAMBDA x : x.ruleId = ruleId)

\* db.select().from(conditions).where(conditionGroupId = ...)
SelectConditions(groupId) ==
  SelectSeq(conditions, LAMBDA c : c.conditionGroupId = groupId)

\* the request arrives: const validation = req.body
ReceiveValidate ==
  /\ pc = "idle"
  /\ call < MaxCalls
  /\ \E request \in Requests : validation' = request
  /\ call' = call + 1
  /\ pc' = "rules"
  /\ snapshots' = {<<conditionGroups, conditions>>}
  /\ UNCHANGED <<store, auditLog, now, variant, editor, startup, applicableRules, i, ruleGroups, g,
                 response, loaded, decided, computed, edits, last>>

\* LoadRules with an outer catch that sends nothing
LoadRulesSilent ==
  /\ pc = "rules"
  /\ \/ /\ applicableRules' = SelectApplicable(validation)
        /\ i' = 1
        /\ pc' = IF applicableRules' = <<>> THEN "auditNoMatch" ELSE "rule"
        /\ computed' = IF applicableRules' = <<>> THEN NoMatchResponse ELSE computed
        /\ UNCHANGED response
     \/ /\ pc' = "done"
        /\ UNCHANGED <<response, applicableRules, i, computed>>
  /\ UNCHANGED <<store, auditLog, now, variant, editor, startup, validation, ruleGroups, g, call, loaded,
                 decided, edits, snapshots, last>>

\* the select of the applicable rules resolves, or rejects into the outer catch
LoadRules ==
  /\ pc = "rules"
  /\ \/ /\ applicableRules' = SelectApplicable(validation)
        /\ i' = 1
        /\ pc' = IF applicableRules' = <<>> THEN "auditNoMatch" ELSE "rule"
        /\ computed' = IF applicableRules' = <<>> THEN NoMatchResponse ELSE computed
        /\ UNCHANGED response
     \/ /\ response' = ErrorResponse
        /\ pc' = "done"
        /\ UNCHANGED <<applicableRules, i, computed>>
  /\ UNCHANGED <<store, auditLog, now, variant, editor, startup, validation, ruleGroups, g, call, loaded,
                 decided, edits, snapshots, last>>

\* the verdict is computed and its audit insert issued
Computed(verdict) == computed' = IF computed = NoResponse THEN verdict ELSE computed

\* `continue`, and the end of the loop body: the next rule, or the code after the
\* loop, which issues the audit insert of the failed attempt
Continue ==
  /\ i' = i + 1
  /\ pc' = IF i < Len(applicableRules) THEN "rule" ELSE "auditNoMatch"
  /\ IF i < Len(applicableRules) THEN UNCHANGED computed ELSE Computed(NoMatchResponse)
  /\ ruleGroups' = <<>>
  /\ g' = 0
  /\ loaded' = <<>>

\* one iteration of the rule loop up to the select of the rule's condition groups:
\* basicMatch, yearMatch, then the groups are read (or the read rejects into the
\* per-rule catch); a rule without groups is answered at once
ScanRule ==
  /\ pc = "rule"
  /\ IF ~BasicMatch(rule, validation)
     THEN /\ Continue
          /\ decided' = Decision(rule.ruleId, "basic", FALSE, 0, <<>>)
          /\ UNCHANGED response
     ELSE IF ~YearMatch(rule, validation)
     THEN /\ Continue
          /\ decided' = Decision(rule.ruleId, "year", FALSE, 0, <<>>)
          /\ UNCHANGED response
     ELSE \/ LET groups == SelectGroups(rule.ruleId) IN
             IF groups = <<>>
             THEN /\ response' = MatchResponse(rule)
                  /\ pc' = "done"
                  /\ decided' = Decision(rule.ruleId, "groups", TRUE, 0, <<>>)
                  /\ UNCHANGED <<i, ruleGroups, g, loaded, computed>>
             ELSE /\ ruleGroups' = groups
                  /\ g' = 1
                  /\ loaded' = <<>>
                  /\ pc' = "conditions"
                  /\ UNCHANGED <<i, response, decided, computed>>
          \/ /\ Continue
             /\ decided' = Decision(rule.ruleId, "error", FALSE, 0, <<>>)
             /\ UNCHANGED response
  /\ UNCHANGED <<store, auditLog, now, variant, editor, startup, validation, applicableRules, call, edits,
                 snapshots, last>>

\* one iteration of the group loop: the group's conditions are read (or the read
\* rejects into the per-rule catch); an empty group is skipped, a group that does
\* not match ends the loop with allGroupsMatch false, and after the last group the
\* audit insert of the match is issued
LoadConditions ==
  /\ pc = "conditions"
  /\ \/ LET groupConditions == SelectConditions(ruleGroups[g].conditionGroupId)
            seen == Append(loaded, groupConditions)
        IN  IF ~GroupSatisfied(groupConditions, validation)
            THEN /\ Continue
                 /\ decided' = Decision(rule.ruleId, "groups", FALSE, Len(ruleGroups),
                                        seen)
            ELSE IF g < Len(ruleGroups)
            THEN /\ g' = g + 1
                 /\ loaded' = seen
                 /\ UNCHANGED <<pc, i, ruleGroups, decided, computed>>
            ELSE /\ pc' = "auditMatch"
                 /\ Computed(MatchResponse(rule))
                 /\ loaded' = seen
                 /\ decided' = Decision(rule.ruleId, "groups", TRUE, Len(ruleGroups),
                                        seen)
                 /\ UNCHANGED <<i, ruleGroups, g>>
     \/ /\ Continue
        /\ decided' = Decision(rule.ruleId, "error", FALSE, Len(ruleGroups), loaded)
  /\ UNCHANGED <<store, auditLog, now, variant, editor, startup, validation, applicableRules, response,
                 call, edits, snapshots, last>>

\* AuditMatch that also retires the rule it matched
AuditMatchRetiringRule ==
  /\ pc = "auditMatch"
  /\ \/ /\ auditLog' = Append(auditLog,
                               [call |-> call, ruleId |-> rule.ruleId, success |-> TRUE])
        /\ rules' = [k \in 1..Len(rules) |->
                       IF rules[k].ruleId = rule.ruleId
                       THEN [rules[k] EXCEPT !.status = "Inactive"] ELSE rules[k]]
        /\ response' = MatchResponse(rule)
        /\ pc' = "done"
        /\ UNCHANGED <<i, ruleGroups, g, loaded, computed>>
     \/ Continue /\ UNCHANGED <<auditLog, response, rules>>
  /\ UNCHANGED <<conditionGroups, conditions, nextRuleId, nextGroupId, nextConditionId,
                 now, variant, editor, startup, validation, applicableRules, call, decided, edits,
                 snapshots, last>>

\* the audit insert of a match resolves and the match is answered, or it rejects
\* into the per-rule catch, which goes on with the next rule
AuditMatch ==
  /\ pc = "auditMatch"
  /\ \/ /\ auditLog' = Append(auditLog,
                               [call |-> call, ruleId |-> rule.ruleId, success |-> TRUE])
        /\ response' = MatchResponse(rule)
        /\ pc' = "done"
        /\ UNCHANGED <<i, ruleGroups, g, loaded, computed>>
     \/ Continue /\ UNCHANGED <<auditLog, response>>
  /\ UNCHANGED <<store, now, variant, editor, startup, validation, applicableRules, call, decided, edits,
                 snapshots, last>>

\* AuditNoMatch recording the failed attempt as a success
AuditNoMatchAsSuccess ==
  /\ pc = "auditNoMatch"
  /\ \/ /\ auditLog' = Append(auditLog,
                               [call |-> call, ruleId |-> NULL, success |-> TRUE])
        /\ response' = NoMatchResponse
     \/ /\ response' = ErrorResponse
        /\ UNCHANGED auditLog
  /\ pc' = "done"
  /\ UNCHANGED <<store, now, variant, editor, startup, validation, applicableRules, i, ruleGroups, g,
                 call, loaded, decided, computed, edits, snapshots, last>>

\* after the loop: the audit insert of the failed attempt resolves and "no match"
\* is answered, or it rejects into the outer catch
AuditNoMatch ==
  /\ pc = "auditNoMatch"
  /\ \/ /\ auditLog' = Append(auditLog,
                               [call |-> call, ruleId |-> NULL, success |-> FALSE])
        /\ response' = NoMatchResponse
     \/ /\ response' = ErrorResponse
        /\ UNCHANGED auditLog
  /\ pc' = "done"
  /\ UNCHANGED <<store, now, variant, editor, startup, validation, applicableRules, i, ruleGroups, g,
                 call, loaded, decided, computed, edits, snapshots, last>>

\* the handler has returned; its locals are gone
Return ==
  /\ pc = "done"
  /\ pc' = "idle"
  /\ validation' = NoRequest
  /\ applicableRules' = <<>>
  /\ i' = 0
  /\ ruleGroups' = <<>>
  /\ g' = 0
  /\ response' = NoResponse
  /\ loaded' = <<>>
  /\ decided' = NoDecision
  /\ computed' = NoResponse
  /\ snapshots' = {}
  /\ UNCHANGED <<store, auditLog, now, variant, editor, startup, call, edits>>

Complete == Return /\ UNCHANGED last

\* the handler returns and the caller keeps the request and its response
CompleteFirst ==
  /\ Return
  /\ last' = [request |-> validation, response |-> response]

\* the caller sends the request of the call before once more
ReceiveAgain ==
  /\ pc = "idle"
  /\ call = MaxCalls
  /\ last # NoLast
  /\ validation' = last.request
  /\ call' = call + 1
  /\ pc' = "rules"
  /\ snapshots' = {<<conditionGroups, conditions>>}
  /\ UNCHANGED <<store, auditLog, now, variant, editor, startup, applicableRules, i, ruleGroups, g,
                 response, loaded, decided, computed, edits, last>>

Validate ==
  \/ ReceiveValidate
  \/ LoadRules
  \/ ScanRule
  \/ LoadConditions
  \/ AuditMatch
  \/ AuditNoMatch
  \/ Complete

(***************************************************************************)
(* Rule editing routes: each is one statement on the store                 *)
(***************************************************************************)
\* PATCH bodies: a record of the fields sent
PatchBodies ==
  {[status |-> "Inactive"],
   [status |-> "Active", validUntil |-> 1]}

\* bodies of POST /api/condition-groups/:groupId/conditions
ConditionBodies ==
  {[parameter |-> "make", operator |-> "=", value |-> <<"6">>, orGroup |-> 1],
   [parameter |-> "makeYear", operator |-> ">", value |-> <<"2", "0", "2", "0">>,
    orGroup |-> NULL]}

\* .set({...updateData, lastModifiedDate, validUntil: updateData.validUntil ? ... : null})
PatchedRule(r, body) ==
  [f \in DOMAIN r |->
     IF f = "validUntil"
     THEN IF "validUntil" \in DOMAIN body /\ body.validUntil # NULL /\ body.validUntil # 0
          THEN body.validUntil ELSE NULL
     ELSE IF f \in DOMAIN body THEN body[f] ELSE r[f]]

\* the rows of table rules the editor is used on
Edited == {k \in 1..Len(rules) : rules[k].ruleId <= MaxEditedRule}

\* a statement on condition_groups or conditions commits while a call is handled
Recorded ==
  snapshots' = IF pc = "idle" THEN snapshots
               ELSE snapshots \cup {<<conditionGroups', conditions'>>}

\* PATCH /api/rules/:id
PatchRule ==
  /\ edits < MaxEdits
  /\ \E k \in Edited, body \in PatchBodies :
       rules' = [rules EXCEPT ![k] = PatchedRule(rules[k], body)]
  /\ edits' = edits + 1
  /\ UNCHANGED <<conditionGroups, conditions, nextRuleId, nextGroupId, nextConditionId,
                 auditLog, now, variant, editor, startup, handler, snapshots, last>>

\* POST /api/rules/:ruleId/condition-groups (the rule must exist: foreign key)
CreateConditionGroup ==
  /\ edits < MaxEdits
  /\ \E k \in Edited :
       conditionGroups' = Append(conditionGroups, Group(nextGroupId, rules[k].ruleId))
  /\ nextGroupId' = nextGroupId + 1
  /\ edits' = edits + 1
  /\ UNCHANGED <<rules, conditions, nextRuleId, nextConditionId, auditLog, now, variant, editor, startup,
                 handler, last>>
  /\ Recorded

\* DELETE /api/rules/:ruleId/condition-groups; the conditions go with their groups
\* (onDelete: 'cascade')
DeleteConditionGroups ==
  /\ edits < MaxEdits
  /\ \E k \in Edited :
       LET gone == {x.conditionGroupId : x \in {conditionGroups[n] : n \in
                      {m \in 1..Len(conditionGroups) :
                         conditionGroups[m].ruleId = rules[k].ruleId}}}
       IN  /\ conditionGroups' =
                SelectSeq(conditionGroups, LAMBDA x : x.conditionGroupId \notin gone)
           /\ conditions' =
                SelectSeq(conditions, LAMBDA c : c.conditionGroupId \notin gone)
  /\ edits' = edits + 1
  /\ UNCHANGED <<rules, nextRuleId, nextGroupId, nextConditionId, auditLog, now, variant, editor, startup,
                 handler, last>>
  /\ Recorded

\* POST /api/condition-groups/:groupId/conditions: parameter, operator and value
\* of the body are stored; or_group is not among the inserted values
CreateCondition ==
  /\ edits < MaxEdits
  /\ \E k \in 1..Len(conditionGroups), body \in ConditionBodies :
       /\ \E e \in Edited : rules[e].ruleId = conditionGroups[k].ruleId
       /\ conditions' = Append(conditions,
         Condition(nextConditionId, conditionGroups[k].conditionGroupId, body.parameter,
                   body.operator, body.value, NULL))
  /\ nextConditionId' = nextConditionId + 1
  /\ edits' = edits + 1
  /\ UNCHANGED <<rules, conditionGroups, nextRuleId, nextGroupId, auditLog, now, variant, editor, startup,
                 handler, last>>
  /\ Recorded

Edit ==
  \/ PatchRule
  \/ CreateConditionGroup
  \/ DeleteConditionGroups
  \/ CreateCondition

\* time passes; an instant of the clock is long against the handling of a
\* request, and the handler never reads the clock
Tick ==
  /\ pc = "idle"
  /\ now < MaxNow
  /\ now' = now + 1
  /\ UNCHANGED <<store, auditLog, variant, editor, startup, handler, edits, snapshots, last>>

Next == Validate \/ Edit \/ Tick

Spec == Init /\ [][Next]_vars

\* validation calls against a rule set nobody edits meanwhile
NextValidate == Validate \/ Tick

SpecValidate == Init /\ [][NextValidate]_vars

\* the same system with the earlier validate handler (routes.ts:692)
InitEarlier ==
  /\ \E s \in Stores : InitStore(s)
  /\ auditLog = <<>>
  /\ now = 0
  /\ variant = 2
  /\ edits = 0
  /\ snapshots = {}
  /\ last = NoLast
  /\ InitHandler
  /\ NoEditor
  /\ Serving

SpecEarlier == InitEarlier /\ [][Next]_vars

(***************************************************************************)
(* One stored condition against one candidate value: a rule open to every   *)
(* request whose only group holds the condition, evaluated by the handler   *)
(***************************************************************************)
\* operatorEnum
Operators == {"=", "!=", "IN", "NOT IN", ">", "<", "<=", ">=", "BETWEEN"}

\* stored values (varchar, not null): a number, the empty string, a word, a
\* range, a list with blanks, a lone comma, a second number
StoredValues ==
  {<<"5", "0", "0">>, <<>>, <<"a", "b", "c">>,
   <<"1", "0", "0", "0", "0", "0", ",", "5", "0", "0", "0", "0", "0">>,
   <<"A", ",", " ", "B", ",", "C">>, <<",">>, <<"1", "0", "0">>}

\* values of the request field: absent, null, strings and numbers
Candidates ==
  {Undef, JsNull, Str(<<>>), Str(<<"a", "b", "c">>), Str(<<"B">>), Str(<<"1", "0", "0", "0", "0", "0">>),
   Num(0), Num(99999), Num(100000), Num(500000), Num(500001)}

ConditionStore(operator, value) ==
  [rules |-> <<Rule(1, "Global", "Active", NULL, "NoInterest", NullStr, Wildcard, Wildcard,
                    Wildcard, NULL)>>,
   conditionGroups |-> <<Group(1, 1)>>,
   conditions |-> <<Condition(1, 1, "price", operator, value, NULL)>>]

InitCondition(handlerVariant) ==
  /\ \E operator \in Operators, value \in StoredValues :
       InitStore(ConditionStore(operator, value))
  /\ auditLog = <<>>
  /\ now = 0
  /\ variant = handlerVariant
  /\ edits = 0
  /\ snapshots = {}
  /\ last = NoLast
  /\ InitHandler
  /\ NoEditor
  /\ Serving

\* the request arrives with a candidate value for price
ReceiveCandidate ==
  /\ pc = "idle"
  /\ call < MaxCalls
  /\ \E value \in Candidates :
       validation' = TestRequest(Vehicle(Undef, Undef, Undef, value))
  /\ call' = call + 1
  /\ pc' = "rules"
  /\ snapshots' = {<<conditionGroups, conditions>>}
  /\ UNCHANGED <<store, auditLog, now, variant, editor, startup, applicableRules, i, ruleGroups, g,
                 response, loaded, decided, computed, edits, last>>

NextCondition ==
  \/ ReceiveCandidate
  \/ LoadRules
  \/ ScanRule
  \/ LoadConditions
  \/ AuditMatch
  \/ AuditNoMatch
  \/ Complete

InitEval == InitCondition(1)

SpecEval == InitEval /\ [][NextCondition]_vars

InitEvalEarlier == InitCondition(2)

SpecEvalEarlier == InitEvalEarlier /\ [][NextCondition]_vars

(***************************************************************************)
(* The test suite: its five requests against the rules it inserts           *)
(***************************************************************************)
\* the request body of each test with the verdict the test expects
TestCases ==
  {[request |-> TestRequest(Vehicle(Str(<<"1", "0">>), Undef, Undef, Undef)),
    isMatch |-> TRUE, action |-> "POZVI - NESLIBUJ"],
   [request |-> TestRequest(Vehicle(Str(<<"6">>), Undef, Undef, Str(<<"2", "0", "0", "0", "0", "0">>))),
    isMatch |-> TRUE, action |-> "NEZVI - NECHCEME"],
   [request |-> TestRequest(Vehicle(Str(<<"1", "0">>), Str(<<"2">>), Str(<<"2", "0", "2", "2">>), Undef)),
    isMatch |-> TRUE, action |-> "POZVI SWAPEM - NESLIBUJ"],
   [request |-> TestRequest(Vehicle(Str(<<"9", "9", "9">>), Undef, Undef, Undef)),
    isMatch |-> FALSE, action |-> NullStr],
   [request |-> TestRequest(Vehicle(Str(<<"1", "0">>), Undef, Undef, Str(<<"5", "0", "0", "0", "0">>))),
    isMatch |-> FALSE, action |-> NullStr]}

\* beforeAll has inserted testRules
InitTests ==
  /\ InitStore(TestStore)
  /\ auditLog = <<>>
  /\ now = 0
  /\ variant = 1
  /\ edits = 0
  /\ snapshots = {}
  /\ last = NoLast
  /\ InitHandler
  /\ NoEditor
  /\ Serving

\* a test sends its request
ReceiveTest ==
  /\ pc = "idle"
  /\ call < MaxCalls
  /\ \E test \in TestCases : validation' = test.request
  /\ call' = call + 1
  /\ pc' = "rules"
  /\ snapshots' = {<<conditionGroups, conditions>>}
  /\ UNCHANGED <<store, auditLog, now, variant, editor, startup, applicableRules, i, ruleGroups, g,
                 response, loaded, decided, computed, edits, last>>

NextTests ==
  \/ ReceiveTest
  \/ LoadRules
  \/ ScanRule
  \/ LoadConditions
  \/ AuditMatch
  \/ AuditNoMatch
  \/ Complete

SpecTests == InitTests /\ [][NextTests]_vars

(***************************************************************************)
(* Requests with a year comparison against rules with and without makeYear  *)
(***************************************************************************)
\* yearComparison of the request: none, the three of the switch, another
YearComparisons == {"", "=", ">", "<", ">="}

\* makeYear of the request: absent, numbers around the rule's year, a string
RequestYears == {Undef, Num(2019), Num(2020), Num(2021), Str(<<"2", "0", "2", "0">>)}

YearRequests ==
  {Request("Global", "CZ", "Private", "Webform", comparison,
           Vehicle(Num(10), Undef, year, Num(100))) :
     comparison \in YearComparisons, year \in RequestYears}

InitYear ==
  /\ InitStore(EditorStore)
  /\ auditLog = <<>>
  /\ now = 0
  /\ variant = 1
  /\ edits = 0
  /\ snapshots = {}
  /\ last = NoLast
  /\ InitHandler
  /\ NoEditor
  /\ Serving

\* the request arrives with a year comparison
ReceiveYear ==
  /\ pc = "idle"
  /\ call < MaxCalls
  /\ \E request \in YearRequests : validation' = request
  /\ call' = call + 1
  /\ pc' = "rules"
  /\ snapshots' = {<<conditionGroups, conditions>>}
  /\ UNCHANGED <<store, auditLog, now, variant, editor, startup, applicableRules, i, ruleGroups, g,
                 response, loaded, decided, computed, edits, last>>

NextYear ==
  \/ ReceiveYear
  \/ LoadRules
  \/ ScanRule
  \/ LoadConditions
  \/ AuditMatch
  \/ AuditNoMatch
  \/ Complete

SpecYear == InitYear /\ [][NextYear]_vars

\* a caller that repeats its request against a rule set nobody edits
NextRepeat ==
  \/ ReceiveValidate
  \/ ReceiveAgain
  \/ LoadRules
  \/ ScanRule
  \/ LoadConditions
  \/ AuditMatch
  \/ AuditNoMatch
  \/ CompleteFirst

SpecRepeat == Init /\ [][NextRepeat]_vars

(***************************************************************************)
(* Properties                                                              *)
(***************************************************************************)
\* the audit entries a call wrote
EntriesOf(c) == {k \in 1..Len(auditLog) : auditLog[k].call = c}

\* the call has been answered with a verdict
Answered == pc = "done" /\ response.status = 200

\* the handler found the k-th condition list it read for the decided rule
\* satisfied: the loop went past it, or it was the last and the rule matched
FoundSatisfied(k) == k < Len(decided.loaded) \/ decided.matched

\* the units of a condition list as the specification defines them: each
\* null-tagged condition alone, and the conditions of each tag together
UnitsOf(groupConditions) ==
  LET cs == CondsOf(groupConditions) IN
  {{c} : c \in {x \in cs : x.orGroup = NULL}}
    \cup {{c \in cs : c.orGroup = t} : t \in {c.orGroup : c \in cs} \ {NULL}}

\* C1: every call answered with a verdict has appended exactly one audit entry,
\* and its success flag equals the isMatch returned
C1_OneAuditEntryPerVerdict ==
  Answered =>
    /\ Cardinality(EntriesOf(call)) = 1
    /\ \A k \in EntriesOf(call) : auditLog[k].success = response.isMatch

\* C2: a condition list the handler found satisfied has every one of its
\* null-tagged conditions true (each is a unit of its own)
C2_NullTaggedAreSingletons ==
  decided.how = "groups" =>
    \A k \in 1..Len(decided.loaded) :
      FoundSatisfied(k) =>
        \A c \in CondsOf(decided.loaded[k]) :
          c.orGroup = NULL => EvalCondition(c, validation)

\* C3: a condition list whose conditions all carry one and the same non-null tag
\* is found satisfied iff at least one of them is true
C3_OrUnitAnyMember ==
  decided.how = "groups" =>
    \A k \in 1..Len(decided.loaded) :
      LET cs == CondsOf(decided.loaded[k]) IN
      (cs # {} /\ \A c, d \in cs : c.orGroup # NULL /\ c.orGroup = d.orGroup) =>
        (FoundSatisfied(k) <=> \E c \in cs : EvalCondition(c, validation))

\* C4: a non-empty condition list is found satisfied iff every one of its units
\* has a true condition (AND across units, OR inside a unit)
C4_AndOfUnits ==
  decided.how = "groups" =>
    \A k \in 1..Len(decided.loaded) :
      decided.loaded[k] # <<>> =>
        (FoundSatisfied(k) <=>
           \A unit \in UnitsOf(decided.loaded[k]) :
             \E c \in unit : EvalCondition(c, validation))

\* C5: the rule returned as the match is Active and its deadline is absent or
\* later than the current time
C5_MatchIsActiveAndUnexpired ==
  (Answered /\ response.isMatch) =>
    /\ rule.status = "Active"
    /\ (rule.validUntil = NULL \/ rule.validUntil > now)

\* C6: first match wins: once a rule has been found to match, the scan stops
\* at it and the call is answered with that rule
C6_FirstMatchWins ==
  decided.matched =>
    /\ pc \in {"auditMatch", "done"}
    /\ rule.ruleId = decided.ruleId
    /\ pc = "done" => response = MatchResponse(rule)

\* C7: the call returns the verdict it had computed when it issued the audit
\* insert, whether or not the insert succeeds
C7_AuditFailureKeepsVerdict ==
  (pc = "done" /\ computed # NoResponse) => response = computed

C9_NoMatchResponse ==
  (pc = "done" /\ computed = NoMatchResponse) => response = NoMatchResponse

\* C10: on a match the response carries the winning rule's action and message
\* and the call's audit entry carries that rule's id with success true; on no
\* match the call's audit entry carries a null rule id with success false
C10_ResponseAndAuditEntryAgree ==
  Answered =>
    IF response.isMatch
    THEN /\ response = MatchResponse(rule)
         /\ \E k \in EntriesOf(call) :
              auditLog[k].ruleId = rule.ruleId /\ auditLog[k].success
    ELSE /\ response = NoMatchResponse
         /\ \E k \in EntriesOf(call) :
              auditLog[k].ruleId = NULL /\ ~auditLog[k].success

\* the condition lists of a rule, group by group, in one content of the tables
\* condition_groups and conditions
ViewOf(snapshot, ruleId) ==
  LET groups == SelectSeq(snapshot[1], LAMBDA x : x.ruleId = ruleId) IN
  [k \in 1..Len(groups) |->
     SelectSeq(snapshot[2], LAMBDA c : c.conditionGroupId = groups[k].conditionGroupId)]

\* C11: the groups and conditions a validation call evaluated a rule against are
\* those the rule had in one content of the store that existed during the call
\* (the old set, the new set of an edit), never a mixture of two contents
C11_ConsistentSnapshot ==
  decided.how = "groups" =>
    \E snapshot \in snapshots :
      LET view == ViewOf(snapshot, decided.ruleId) IN
      /\ decided.groups = Len(view)
      /\ \A k \in 1..Len(decided.loaded) :
           k <= Len(view) /\ decided.loaded[k] = view[k]

\* C12: when the read of a rule's condition groups or conditions rejects, the rule
\* does not match, the scan goes on past it, and the call ends with a verdict
\* (status 200) that is not this rule
C12_LoadFailureSkipsRule ==
  decided.how = "error" =>
    /\ ~decided.matched
    /\ \E k \in 1..Len(applicableRules) :
         k < i /\ applicableRules[k].ruleId = decided.ruleId
    /\ pc = "done" =>
         /\ response.status = 200
         /\ response.isMatch => rule.ruleId # decided.ruleId

\* C13: when the select of the applicable rules rejects, the call is answered
\* with status 500 and the error body: no verdict is sent and no audit entry written
C13_RuleLoadFailureIsServerError ==
  (pc = "done" /\ i = 0) =>
    /\ response.status = 500
    /\ response.error = "Failed to validate vehicle"
    /\ ~response.isMatch
    /\ response.actionMessage = NullStr
    /\ EntriesOf(call) = {}

C13_Witness == pc = "done" /\ i = 0 /\ response.status = 500 /\ call = 1

\* C19: the rule returned as the match has the rule type of the request, and each
\* of its country, customer and opportunity-source filters is Any or the
\* request's value
C19_MatchPassedFilters ==
  (Answered /\ response.isMatch) =>
    /\ rule.ruleType = validation.ruleType
    /\ rule.country \in {"Any", validation.country}
    /\ rule.customer \in {"Any", validation.customer}
    /\ rule.opportunitySource \in {"Any", validation.opportunitySource}

C19_Witness ==
  /\ Answered
  /\ response.isMatch
  /\ rule.country = "CZ"
  /\ rule.customer = "Private"
  /\ validation.country = "CZ"

\* C20: a request repeated against the unchanged rules, condition groups and
\* conditions is answered with the verdict the call before was answered with
C20_SameQuerySameResponse ==
  (Answered /\ last.response.status = 200) => response = last.response

\* the rule in hand was decided on one condition, the only one of its only group
Evaluated ==
  /\ decided.how = "groups"
  /\ decided.groups = 1
  /\ Len(decided.loaded) = 1
  /\ Len(decided.loaded[1]) = 1

\* that condition, and the value the request carries for its parameter
evaluatedCondition == decided.loaded[1][1]
candidate == validation.vehicle[evaluatedCondition.parameter]

\* C14: a condition whose parameter is undefined or null in the request does not
\* hold, whatever its operator (!= and NOT IN included)
C14_AbsentNeverMatches ==
  (Evaluated /\ candidate.t \in {"undef", "null"}) => ~decided.matched

C14_Witness ==
  /\ Evaluated
  /\ candidate = JsNull
  /\ evaluatedCondition.operator = "!="
  /\ ~decided.matched

\* well-formed BETWEEN values with the bounds they denote
Ranges == {[value |-> <<"1", "0", "0", "0", "0", "0", ",", "5", "0", "0", "0", "0", "0">>, min |-> 100000, max |-> 500000]}

\* numeric strings with the numbers they denote
Numerals == {[s |-> <<"1", "0", "0", "0", "0", "0">>, n |-> 100000]}

\* C15: BETWEEN with stored "min,max" holds iff min <= candidate <= max, both
\* bounds included, for a number and for a numeric string ("100000,500000":
\* 100000 and 500000 match, 99999 does not)
C15_BetweenInclusive ==
  \A range \in Ranges :
    (Evaluated /\ evaluatedCondition.operator = "BETWEEN"
       /\ evaluatedCondition.value = range.value) =>
      /\ candidate.t = "num" =>
           (decided.matched <=> range.min <= candidate.n /\ candidate.n <= range.max)
      /\ \A numeral \in Numerals :
           candidate = Str(numeral.s) =>
             (decided.matched <=> range.min <= numeral.n /\ numeral.n <= range.max)

C15_Witness ==
  /\ Evaluated
  /\ evaluatedCondition.operator = "BETWEEN"
  /\ evaluatedCondition.value \in {range.value : range \in Ranges}
  /\ candidate = Num(500000)
  /\ decided.matched

\* stored lists with the members they denote once each segment is trimmed
Lists == {[value |-> <<"A", ",", " ", "B", ",", "C">>, members |-> {<<"A">>, <<"B">>, <<"C">>}]}

\* C16: IN holds iff the candidate is one of the trimmed segments of the stored
\* list, NOT IN iff it is none of them ("A, B,C": "B" satisfies IN, fails NOT IN)
C16_ListSegmentsTrimmed ==
  \A list \in Lists :
    (Evaluated /\ evaluatedCondition.value = list.value /\ candidate.t = "str") =>
      /\ evaluatedCondition.operator = "IN" =>
           (decided.matched <=> candidate.s \in list.members)
      /\ evaluatedCondition.operator = "NOT IN" =>
           (decided.matched <=> candidate.s \notin list.members)

\* the operators that compare numbers
Relational == {">", "<", ">=", "<="}

\* strings that are no number: a word, the empty string
NonNumeric == {<<"a", "b", "c">>, <<>>}

\* C17: under >, <, >= and <= a candidate string that is no number (a word, the
\* empty string) makes the condition not hold
C17_NonNumericCandidateFails ==
  (Evaluated /\ evaluatedCondition.operator \in Relational
     /\ candidate.t = "str" /\ candidate.s \in NonNumeric) => ~decided.matched

\* a stored condition that is malformed: no number under a relational operator,
\* a BETWEEN value that is not two numbers, an operator that is none of the nine
Malformed(condition) ==
  \/ condition.operator \in Relational /\ condition.value \in NonNumeric
  \/ /\ condition.operator = "BETWEEN"
     /\ condition.value \in {<<>>, <<",">>, <<"a", "b", "c">>, <<"1", "0", "0">>, <<"A", ",", " ", "B", ",", "C">>}
  \/ condition.operator \notin
       {"=", "!=", "IN", "NOT IN", ">", "<", "<=", ">=", "BETWEEN"}

\* C18: a malformed stored condition does not hold, whatever the candidate
C18_MalformedConditionFails ==
  (Evaluated /\ Malformed(evaluatedCondition)) => ~decided.matched

\* C22: a step of the validation handler leaves the rules, condition groups and
\* conditions (and their serials) as they are, and the audit log it leaves
\* starts with the audit log it found: entries are appended, none changed or removed
C22_ValidationOnlyAppendsAudit ==
  [][handler' # handler =>
       /\ UNCHANGED store
       /\ Len(auditLog') >= Len(auditLog)
       /\ SubSeq(auditLog', 1, Len(auditLog)) = auditLog]_vars

C22_Witness ==
  /\ pc = "done"
  /\ response.isMatch
  /\ Len(auditLog) = 1
  /\ auditLog[1].ruleId = rule.ruleId

\* C24: a response has been sent exactly when the handler is through, it is a 200
\* verdict or the 500 error, and a response sent is not replaced by another
C24_ExactlyOneResponse ==
  /\ [](pc = "done" <=> response # NoResponse)
  /\ [](response # NoResponse =>
          \/ response.status = 200 /\ response.error = NullStr
          \/ response.status = 500 /\ response.error # NullStr)
  /\ [][response' # response => (response = NoResponse \/ response' = NoResponse)]_vars

C24_Witness ==
  /\ pc = "done"
  /\ response.status = 500
  /\ computed = NoMatchResponse
  /\ decided.how = "error"

\* C25: no call has written more than one audit entry, an entry with success
\* true carries a rule id and one with success false carries none, and the entry
\* of a match carries the id of the rule returned, which was read as Active and
\* of the request's rule type
C25_AuditLogWellFormed ==
  /\ \A c \in 1..call : Cardinality(EntriesOf(c)) <= 1
  /\ \A k \in 1..Len(auditLog) :
       IF auditLog[k].success THEN auditLog[k].ruleId # NULL
       ELSE auditLog[k].ruleId = NULL
  /\ (pc = "done" /\ response.status = 200 /\ response.isMatch) =>
       \A k \in EntriesOf(call) :
         /\ auditLog[k].ruleId = rule.ruleId
         /\ rule.status = "Active"
         /\ rule.ruleType = validation.ruleType

C25_Witness ==
  /\ pc = "done"
  /\ Cardinality(EntriesOf(call)) = 1
  /\ \E k \in EntriesOf(call) : auditLog[k].success /\ auditLog[k].ruleId = 1

\* C29: a step that changes table rules changes, in each row it changes, only
\* fields that the body of a PATCH carries, to the values it carries (a body
\* without validUntil leaves validUntil as it is), and touches no condition
\* group and no condition
C29_PatchChangesOnlySentFields ==
  [][rules' # rules =>
       /\ UNCHANGED <<conditionGroups, conditions>>
       /\ Len(rules') = Len(rules)
       /\ \A k \in 1..Len(rules) :
            rules'[k] # rules[k] =>
              \E body \in PatchBodies :
                \A f \in DOMAIN rules[k] :
                  rules'[k][f] = IF f \in DOMAIN body THEN body[f] ELSE rules[k][f]]_vars

YearNumerals == {[s |-> <<"2", "0", "2", "0">>, n |-> 2020]}

\* the year a makeYear of the request denotes
YearNumber(year) ==
  IF year.t = "num" THEN year.n ELSE (CHOOSE d \in YearNumerals : d.s = year.s).n

\* C28: a rule is rejected by the year filter only when the request carries a
\* yearComparison among =, >, < and a makeYear, the rule has a makeYear, and
\* request year <op> rule year is false
C28_YearFilterRejectsOnFalseComparison ==
  decided.how = "year" =>
    LET year == validation.vehicle.makeYear
        ruleYear == (CHOOSE r \in {applicableRules[k] : k \in 1..Len(applicableRules)} :
                       r.ruleId = decided.ruleId).makeYear
    IN  /\ validation.yearComparison \in {"=", ">", "<"}
        /\ year.t \in {"num", "str"}
        /\ ruleYear # NULL
        /\ validation.yearComparison = "=" => YearNumber(year) # ruleYear
        /\ validation.yearComparison = ">" => ~(YearNumber(year) > ruleYear)
        /\ validation.yearComparison = "<" => ~(YearNumber(year) < ruleYear)

(***************************************************************************)
(* The rule editor (RuleBuilder.tsx) submitting an existing rule, next to  *)
(* the other statements on the three tables                                *)
(***************************************************************************)
\* const { id } = useParams(): the rule the editor is open on
id == 1

\* a condition of the form
FormCondition(parameter, operator, value, orGroup) ==
  [parameter |-> parameter, operator |-> operator, value |-> value, orGroup |-> orGroup]

\* conditionGroups states of the form; every group has a description and at least
\* one condition. The groups are those of the test suite's rules 2 and 3
Forms ==
  {<< <<FormCondition("make", "=", <<"1", "0">>, 1),
        FormCondition("make", "=", <<"6">>, 1)>> >>,
   << <<FormCondition("make", "=", <<"1", "0">>, 1),
        FormCondition("make", "=", <<"6">>, 1)>>,
      <<FormCondition("price", "BETWEEN",
          <<"1", "0", "0", "0", "0", "0", ",", "5", "0", "0", "0", "0", "0">>, NULL)>> >>,
   << <<FormCondition("make", "=", <<"1", "0">>, 1),
        FormCondition("model", "IN", <<"1", ",", "2", ",", "3">>, 1),
        FormCondition("makeYear", ">", <<"2", "0", "2", "0">>, NULL)>>,
      <<FormCondition("price", "<", <<"5", "0", "0">>, NULL)>> >>}

InitForm ==
  /\ \E s \in Stores : InitStore(s)
  /\ auditLog = <<>>
  /\ now = 0
  /\ variant = 1
  /\ edits = 0
  /\ snapshots = {}
  /\ last = NoLast
  /\ InitHandler
  /\ Serving
  /\ editorPc = "form"
  /\ \E form \in Forms : conditionGroups_ = form
  /\ groupIndex = 0
  /\ conditionIndex = 0
  /\ newGroup = NULL

\* the rows of condition_groups and conditions left once the groups of the rules
\* `gone` are deleted; the conditions go with their groups (onDelete: 'cascade')
GroupsWithout(gone) == SelectSeq(conditionGroups, LAMBDA x : x.ruleId \notin gone)

ConditionsWithout(gone) ==
  SelectSeq(conditions,
            LAMBDA c : \A n \in 1..Len(conditionGroups) :
                         conditionGroups[n].conditionGroupId = c.conditionGroupId
                           => conditionGroups[n].ruleId \notin gone)

\* for (let i = 0; i < conditionGroups.length; i++) await saveConditionGroup(i):
\* the call for the group in hand has returned
NextGroup ==
  /\ IF groupIndex < Len(conditionGroups_)
     THEN editorPc' = "delete" /\ groupIndex' = groupIndex + 1
     ELSE editorPc' = "done" /\ UNCHANGED groupIndex
  /\ conditionIndex' = 0

\* onSubmit, update path: await api.updateRule(Number(id), ruleData) and the route
\* PATCH /api/rules/:id. ruleData is the form's data, which was loaded from the
\* rule, with makeYear: null; a rule that is gone is answered 404 and onSubmit ends
\* in its catch
updateRule ==
  /\ editorPc = "form"
  /\ IF \E k \in 1..Len(rules) : rules[k].ruleId = id
     THEN /\ rules' =
               [k \in 1..Len(rules) |->
                  IF rules[k].ruleId = id
                  THEN PatchedRule(rules[k], [makeYear |-> NULL,
                                              validUntil |-> rules[k].validUntil])
                  ELSE rules[k]]
          /\ IF Len(conditionGroups_) > 0
             THEN editorPc' = "delete" /\ groupIndex' = 1
             ELSE editorPc' = "done" /\ UNCHANGED groupIndex
     ELSE /\ editorPc' = "failed"
          /\ UNCHANGED <<rules, groupIndex>>
  /\ UNCHANGED <<conditionGroups, conditions, nextRuleId, nextGroupId, nextConditionId,
                 auditLog, now, variant, handler, edits, snapshots, last, startup,
                 conditionGroups_, conditionIndex, newGroup>>

\* saveConditionGroup: await api.deleteRuleConditionGroups(Number(id)) and the route
\* DELETE /api/rules/:ruleId/condition-groups
deleteRuleConditionGroups ==
  /\ editorPc = "delete"
  /\ conditionGroups' = GroupsWithout({id})
  /\ conditions' = ConditionsWithout({id})
  /\ editorPc' = "group"
  /\ UNCHANGED <<rules, nextRuleId, nextGroupId, nextConditionId, auditLog, now, variant,
                 handler, edits, last, startup, conditionGroups_, groupIndex,
                 conditionIndex, newGroup>>
  /\ Recorded

\* saveConditionGroup: const newGroup = await api.createConditionGroup(Number(id), ...)
\* and the route POST /api/rules/:ruleId/condition-groups. The insert fails on the
\* foreign key when the rule is gone; saveConditionGroup catches and returns
createConditionGroup ==
  /\ editorPc = "group"
  /\ IF \E k \in 1..Len(rules) : rules[k].ruleId = id
     THEN /\ conditionGroups' = Append(conditionGroups, Group(nextGroupId, id))
          /\ nextGroupId' = nextGroupId + 1
          /\ newGroup' = nextGroupId
          /\ conditionIndex' = 1
          /\ editorPc' = "condition"
          /\ UNCHANGED groupIndex
     ELSE /\ NextGroup
          /\ UNCHANGED <<conditionGroups, nextGroupId, newGroup>>
  /\ UNCHANGED <<rules, conditions, nextRuleId, nextConditionId, auditLog, now, variant,
                 handler, edits, last, startup, conditionGroups_>>
  /\ Recorded

\* saveConditionGroup: for (const condition of group.conditions)
\* await api.createCondition(newGroup.conditionGroupId, {..., orGroup}) and the route
\* POST /api/condition-groups/:groupId/conditions, which stores parameter, operator
\* and value of the body. The insert fails on the foreign key when the group is gone
createCondition ==
  /\ editorPc = "condition"
  /\ LET group == conditionGroups_[groupIndex]
         condition == group[conditionIndex]
     IN  IF \E n \in 1..Len(conditionGroups) : conditionGroups[n].conditionGroupId = newGroup
         THEN /\ conditions' = Append(conditions,
                   Condition(nextConditionId, newGroup, condition.parameter,
                             condition.operator, condition.value, NULL))
              /\ nextConditionId' = nextConditionId + 1
              /\ IF conditionIndex < Len(group)
                 THEN /\ conditionIndex' = conditionIndex + 1
                      /\ UNCHANGED <<editorPc, groupIndex>>
                 ELSE NextGroup
         ELSE /\ NextGroup
              /\ UNCHANGED <<conditions, nextConditionId>>
  /\ UNCHANGED <<rules, conditionGroups, nextRuleId, nextGroupId, auditLog, now, variant,
                 handler, edits, last, startup, conditionGroups_, newGroup>>
  /\ Recorded

onSubmit ==
  \/ updateRule
  \/ deleteRuleConditionGroups
  \/ createConditionGroup
  \/ createCondition

\* db.delete(rules) leaving the rule's condition groups behind
DeleteRuleLeavingGroups ==
  /\ edits < MaxEdits
  /\ \E k \in Edited :
       rules' = SelectSeq(rules, LAMBDA r : r.ruleId # rules[k].ruleId)
  /\ edits' = edits + 1
  /\ UNCHANGED <<conditionGroups, conditions, nextRuleId, nextGroupId, nextConditionId,
                 auditLog, now, variant, handler, last, startup, editor>>
  /\ Recorded

\* await db.delete(rules).where(eq(rules.ruleId, rule.ruleId)): the rule's condition
\* groups and their conditions go with it (onDelete: 'cascade')
DeleteRule ==
  /\ edits < MaxEdits
  /\ \E k \in Edited :
       /\ rules' = SelectSeq(rules, LAMBDA r : r.ruleId # rules[k].ruleId)
       /\ conditionGroups' = GroupsWithout({rules[k].ruleId})
       /\ conditions' = ConditionsWithout({rules[k].ruleId})
  /\ edits' = edits + 1
  /\ UNCHANGED <<nextRuleId, nextGroupId, nextConditionId, auditLog, now, variant,
                 handler, last, startup, editor>>
  /\ Recorded

\* POST /api/rules: db.insert(rules).values(newRule)
CreateRule ==
  /\ edits < MaxEdits
  /\ rules' = Append(rules, Rule(nextRuleId, "Global", "Active", NULL, "NoInterest",
                                 NullStr, Wildcard, Wildcard, Wildcard, NULL))
  /\ nextRuleId' = nextRuleId + 1
  /\ edits' = edits + 1
  /\ UNCHANGED <<conditionGroups, conditions, nextGroupId, nextConditionId, auditLog,
                 now, variant, handler, last, startup, editor, snapshots>>

NextForm == onSubmit \/ Edit \/ DeleteRule \/ CreateRule

SpecForm == InitForm /\ [][NextForm]_vars

\* C21: under every sequence of rule, condition-group and condition creations and
\* deletions, each stored condition belongs to a stored condition group and each
\* stored condition group to a stored rule
C21_OwnershipIntact ==
  /\ \A n \in 1..Len(conditions) :
       conditions[n].conditionGroupId \in GroupIdOf(conditionGroups)
  /\ \A n \in 1..Len(conditionGroups) :
       conditionGroups[n].ruleId \in RuleIdOf(rules)

\* the rule the editor is open on was deleted after the editor had created a group
\* for it, and the submit has ended
C21_Witness ==
  /\ id \notin RuleIdOf(rules)
  /\ newGroup # NULL
  /\ editorPc = "done"

\* the groups of the rule `id` as the store holds them: per group, the conditions'
\* parameter, operator and value
StoredGroups ==
  LET groups == SelectGroups(id)
  IN  [n \in 1..Len(groups) |->
         LET stored == SelectConditions(groups[n].conditionGroupId)
         IN  [m \in 1..Len(stored) |->
                [parameter |-> stored[m].parameter, operator |-> stored[m].operator,
                 value |-> stored[m].value]]]

\* the groups of the form, per group the conditions' parameter, operator and value
FormGroups ==
  [n \in 1..Len(conditionGroups_) |->
     [m \in 1..Len(conditionGroups_[n]) |->
        [parameter |-> conditionGroups_[n][m].parameter,
         operator |-> conditionGroups_[n][m].operator,
         value |-> conditionGroups_[n][m].value]]]

\* C26: when the submit for an existing rule with two or more groups on the form has
\* completed and no other request touched the store, the store holds the form's
\* groups for the rule, each with its conditions
C26_SubmitStoresEveryGroup ==
  (editorPc = "done" /\ edits = 0 /\ Len(conditionGroups_) >= 2)
    => StoredGroups = FormGroups

\* C27: a condition created by the editor's createCondition is stored with the
\* or-group tag of the request body
C27_OrGroupStored ==
  (editorPc \in {"condition", "done"} /\ edits = 0 /\ newGroup # NULL)
    => LET stored == SelectConditions(newGroup)
       IN  \A m \in 1..Len(stored) :
             stored[m].orGroup = conditionGroups_[groupIndex][m].orGroup

(***************************************************************************)
(* Server startup (index.ts)                                               *)
(***************************************************************************)
InitStartup ==
  /\ \E s \in Stores : InitStore(s)
  /\ auditLog = <<>>
  /\ now = 0
  /\ variant = 1
  /\ edits = 0
  /\ snapshots = {}
  /\ last = NoLast
  /\ InitHandler
  /\ NoEditor
  /\ bootPc = "db"
  /\ retries = Retries
  /\ registrations = 0
  /\ listenAttempts = 0
  /\ exitCode = NULL

\* catch (err) { retries--; if (retries === 0) throw err; await the timer }, and for
\* the rethrown error the outer catch: process.exit(1)
Catch ==
  /\ retries' = retries - 1
  /\ IF retries - 1 = 0
     THEN bootPc' = "exited" /\ exitCode' = 1
     ELSE bootPc' = "wait" /\ UNCHANGED exitCode

\* await db.execute(sql`SELECT 1`); a failure is caught by the outer catch
CheckDatabase ==
  /\ bootPc = "db"
  /\ \/ bootPc' = "register" /\ UNCHANGED exitCode
     \/ bootPc' = "exited" /\ exitCode' = 1
  /\ UNCHANGED <<store, auditLog, now, variant, handler, edits, snapshots, last, editor,
                 retries, registrations, listenAttempts>>

\* while (retries > 0): server = registerRoutes(app); app.use(error handler)
Register ==
  /\ bootPc = "register"
  /\ retries > 0
  /\ registrations' = registrations + 1
  /\ bootPc' = "setup"
  /\ UNCHANGED <<store, auditLog, now, variant, handler, edits, snapshots, last, editor,
                 retries, listenAttempts, exitCode>>

\* await setupVite(app, server) in development, serveStatic(app) otherwise; either
\* may throw
Setup ==
  /\ bootPc = "setup"
  /\ \/ bootPc' = "listen" /\ UNCHANGED <<retries, exitCode>>
     \/ Catch
  /\ UNCHANGED <<store, auditLog, now, variant, handler, edits, snapshots, last, editor,
                 registrations, listenAttempts>>

\* await new Promise(... server.listen(PORT, ...) ...): resolved by the listening
\* callback (then break), rejected by the 'error' event
Listen ==
  /\ bootPc = "listen"
  /\ listenAttempts' = listenAttempts + 1
  /\ \/ bootPc' = "listening" /\ UNCHANGED <<retries, exitCode>>
     \/ Catch
  /\ UNCHANGED <<store, auditLog, now, variant, handler, edits, snapshots, last, editor,
                 registrations>>

\* await new Promise(resolve => setTimeout(resolve, 1000))
Wait ==
  /\ bootPc = "wait"
  /\ bootPc' = "register"
  /\ UNCHANGED <<store, auditLog, now, variant, handler, edits, snapshots, last, editor,
                 retries, registrations, listenAttempts, exitCode>>

\* cleanup on SIGTERM or SIGINT: server.close(() => process.exit(0))
Cleanup ==
  /\ bootPc = "listening"
  /\ bootPc' = "exited"
  /\ exitCode' = 0
  /\ UNCHANGED <<store, auditLog, now, variant, handler, edits, snapshots, last, editor,
                 retries, registrations, listenAttempts>>

Startup == CheckDatabase \/ Register \/ Setup \/ Listen \/ Wait

NextStartup == Startup \/ Cleanup

\* the awaited promises of the startup settle
SpecStartup == InitStartup /\ [][NextStartup]_vars /\ WF_vars(Startup)

\* C30: startup ends either listening, after at most 5 listen attempts and with the
\* routes and the error handler registered once, or exited with status 1 after 5
\* failed listen attempts; no listen attempt follows a successful one
C30_StartupOutcome ==
  /\ <>(bootPc \in {"listening", "exited"})
  /\ [](bootPc = "listening" => listenAttempts <= Retries /\ registrations = 1)
  /\ [](exitCode = 1 => listenAttempts = Retries)
  /\ [][bootPc = "listening" => listenAttempts' = listenAttempts]_vars

====
